---- MODULE Spec2Model ----
(***************************************************************************)
(* Model of api/generate-summary.js: the serverless proxy handler that     *)
(* forwards a prompt to the Gemini API and relays the generated text.      *)
(*                                                                         *)
(* Each invocation of handler(request, response) is a small process with   *)
(* its own locals.  The only value shared between invocations is the       *)
(* environment variable GEMINI_API_KEY, which the handler reads and never  *)
(* writes.                                                                 *)
(***************************************************************************)
EXTENDS Integers, Sequences, FiniteSets, TLC

VARIABLES
    env,          \* process.env.GEMINI_API_KEY
    pc,           \* pc[i]: position of invocation i in the handler
    request,      \* request[i]: the inbound request {method, body}
    key,          \* key[i]: local const GEMINI_API_KEY
    prompt,       \* prompt[i], systemInstruction[i], model[i]: the locals
    systemInstruction,  \*   destructured from request.body
    model,
    payload,      \* payload[i]: local const payload (line 25)
    apiResponse,  \* apiResponse[i]: what fetch resolved to (line 31)
    apiResult,    \* apiResult[i]: what apiResponse.json() resolved to (line 37)
    error,        \* error[i]: the exception bound by catch (line 55), its message
    outbound,     \* outbound[i]: the fetch calls issued, in order
    responses,    \* responses[i]: the responses emitted to the caller, in order
    promise       \* promise[i]: state of the promise the async handler returned

vars == <<env, pc, request, key, prompt, systemInstruction, model, payload,
          apiResponse, apiResult, error, outbound, responses, promise>>

(***************************************************************************)
(* Bounds.                                                                 *)
(***************************************************************************)
NInv == 2
Invocations == 1..NInv

(***************************************************************************)
(* JavaScript values.  Every value is a record {t, s, c}: t is the type,   *)
(* s the scalar (text of a string, numeral of a number), c the children    *)
(* (items of an array, members {k, val} of an object).                     *)
(***************************************************************************)
Unassigned == [t |-> "unassigned", s |-> "", c |-> <<>>]
Undefined == [t |-> "undefined", s |-> "", c |-> <<>>]
Null == [t |-> "null", s |-> "", c |-> <<>>]
Str(x) == [t |-> "string", s |-> x, c |-> <<>>]
Num(x) == [t |-> "number", s |-> x, c |-> <<>>]
Bool(x) == [t |-> "boolean", s |-> x, c |-> <<>>]
Arr(items) == [t |-> "array", s |-> "", c |-> items]
Obj(members) == [t |-> "object", s |-> "", c |-> members]
M(k, v) == [k |-> k, val |-> v]

\* null and undefined: a property read on them throws a TypeError
Nullish(v) == v.t \in {"undefined", "null"}

\* ToBoolean, as applied by `!x` and `if (x)`
Truthy(v) ==
    CASE v.t \in {"undefined", "null"} -> FALSE
      [] v.t = "string" -> v.s # ""
      [] v.t = "number" -> v.s # "0"
      [] v.t = "boolean" -> v.s = "true"
      [] OTHER -> TRUE

\* v[k] for a v that is not nullish
GetProp(v, k) ==
    IF v.t = "object" /\ \E n \in 1..Len(v.c) : v.c[n].k = k
    THEN v.c[CHOOSE n \in 1..Len(v.c) :
                 /\ v.c[n].k = k
                 /\ \A m \in 1..Len(v.c) : v.c[m].k = k => m <= n].val
    ELSE Undefined

\* v?.k
OptProp(v, k) == IF Nullish(v) THEN Undefined ELSE GetProp(v, k)

\* v?.[0].  The first character of a string is a one-character string; no
\* property read below uses more of it than its type.
OptIndex0(v) ==
    CASE Nullish(v) -> Undefined
      [] v.t = "array" -> IF Len(v.c) > 0 THEN v.c[1] ELSE Undefined
      [] v.t = "string" -> IF v.s # "" THEN Str("?") ELSE Undefined
      [] OTHER -> GetProp(v, "0")

(***************************************************************************)
(* JSON.stringify, up to the document it denotes: a member whose value is  *)
(* undefined is left out, an undefined array item becomes null.  (The      *)
(* one-element sets bind a value once it is computed.)                     *)
(***************************************************************************)
RECURSIVE Stringify(_)
StringifyItems(items) ==
    [n \in 1..Len(items) |->
        IF items[n].t = "undefined" THEN Null ELSE Stringify(items[n])]
StringifyMembers(members) ==
    LET kept == SelectSeq(members, LAMBDA m : m.val.t # "undefined")
    IN  [n \in 1..Len(kept) |-> M(kept[n].k, Stringify(kept[n].val))]
Stringify(v) ==
    CHOOSE doc \in
        {(CASE x.t = "array" -> Arr(StringifyItems(x.c))
            [] x.t = "object" -> Obj(StringifyMembers(x.c))
            [] OTHER -> x) : x \in {v}} : TRUE

(***************************************************************************)
(* The handler's constants and the pieces of its control flow.             *)
(***************************************************************************)
GEMINI_API_URL ==
    "https://generativelanguage.googleapis.com/v1beta/models/gemini-2.5-flash-preview-05-20:generateContent"

\* Variant: the method compared without regard to case.
MethodAllowedAnyCase(method) == method \in {"POST", "post"}

\* line 9: request.method !== 'POST' is the negation of this
MethodAllowed(method) == method = "POST"

\* Variant: only an unset variable counts as missing (=== undefined).
CredentialMissingOnlyUndefined(k) == k.t = "undefined"

\* line 17: !GEMINI_API_KEY
CredentialMissing(k) == ~Truthy(k)

\* Variant: a body without a prompt is rejected before the upstream call.
ExtractionValidates(body) == Nullish(body) \/ GetProp(body, "prompt") = Undefined

\* line 23: destructuring request.body throws when the body is null or undefined
ExtractionThrows(body) == Nullish(body)

\* lines 25-28
BuildPayload(p, s, m) ==
    Obj(<<M("contents", Arr(<<Obj(<<M("parts", Arr(<<Obj(<<M("text", p)>>)>>))>>)>>)),
          M("systemInstruction", Obj(<<M("parts", Arr(<<Obj(<<M("text", s)>>)>>))>>))>>)

\* Variant: the model field selects the endpoint.
FetchCallModelEndpoint(k, pl, m) ==
    [url |-> (IF m.t = "string" THEN "https://generativelanguage.googleapis.com/v1beta/models/"
                                     \o m.s \o ":generateContent"
              ELSE GEMINI_API_URL) \o "?key=" \o k.s,
     method |-> "POST",
     contentType |-> "application/json",
     body |-> Stringify(pl)]

\* lines 31-35: the arguments of fetch, as the scope of line 31 determines them
FetchCall(k, pl, m) ==
    [url |-> GEMINI_API_URL \o "?key=" \o k.s,
     method |-> "POST",
     contentType |-> "application/json",
     body |-> Stringify(pl)]

\* Variant: only status 200 counts as success.
OkOnly200(status) == status = 200

\* apiResponse.ok
Ok(status) == status >= 200 /\ status <= 299

\* line 41: apiResult.candidates?.[0]?.content?.parts?.[0]?.text, for an
\* apiResult that is not null (the first read is not an optional one)
ExtractText(result) ==
    CHOOSE text \in
      {OptProp(part, "text") : part \in
        {OptIndex0(parts) : parts \in
          {OptProp(content, "parts") : content \in
            {OptProp(candidate, "content") : candidate \in
              {OptIndex0(candidates) : candidates \in
                {GetProp(result, "candidates")}}}}}} : TRUE

\* response.status(s).json(b): what reaches the caller
Reply(status, body) == [status |-> status, body |-> Stringify(body)]

\* line 10
MethodNotAllowedResponse ==
    Reply(405, Obj(<<M("error",
        Str("Method Not Allowed. This endpoint only accepts POST requests."))>>))

\* line 19
ConfigErrorResponse ==
    Reply(500, Obj(<<M("error",
        Str("Server configuration error: GEMINI_API_KEY environment variable is missing."))>>))

\* line 44
SummaryResponse(generatedText) ==
    Reply(200, Obj(<<M("summary", generatedText)>>))

\* line 46
EmptyResultResponse ==
    Reply(500, Obj(<<M("error",
        Str("Gemini API returned an empty or invalid response."))>>))

\* lines 50-53
UpstreamFailureResponse(res, result) ==
    Reply(res.status,
          Obj(<<M("error", Str("Gemini API call failed with status "
                               \o ToString(res.status))),
                M("details", result)>>))

\* line 57
InternalErrorResponse(message) ==
    Reply(500, Obj(<<M("error", Str("Internal Server Error during proxy processing.")),
                     M("details", Str(message))>>))

\* The messages of the exceptions the try block can see.
DestructureMessage(body) ==
    "Cannot destructure property 'prompt' of 'request.body' as it is "
    \o body.t \o "."
ParseMessage(raw) ==
    IF raw = "" THEN "Unexpected end of JSON input"
    ELSE "Unexpected token < in JSON at position 0"
NullReadMessage == "Cannot read properties of null (reading 'candidates')"

(***************************************************************************)
(* What the upstream can put on the wire: a body is text that either is a  *)
(* JSON document (value) or is not (raw).                                  *)
(***************************************************************************)
JsonBody(v) == [json |-> TRUE, raw |-> "", value |-> v]
TextBody(raw) == [json |-> FALSE, raw |-> raw, value |-> Undefined]
NoResponse == [status |-> 0, body |-> TextBody("")]

(***************************************************************************)
(* Inputs.  One invocation explored over the whole input space (Spec), and *)
(* NInv concurrent invocations over a reduced one (SpecConc).              *)
(***************************************************************************)
Credentials == {Undefined, Str(""), Str("k1"), Str("k2")}

Methods == {"POST", "GET", "post"}

\* A request body with the members that are given (Undefined: member absent).
BodyOf(p, s, m) ==
    Obj((IF p = Undefined THEN <<>> ELSE <<M("prompt", p)>>)
        \o (IF s = Undefined THEN <<>> ELSE <<M("systemInstruction", s)>>)
        \o (IF m = Undefined THEN <<>> ELSE <<M("model", m)>>))

Prompts == {Undefined, Str("p1"), Str("p2"), Num("42")}
SystemInstructions == {Undefined, Str("s1"), Null}
Models == {Undefined, Str("m1"), Str("m2")}

Bodies ==
    {Undefined, Null, Str("raw text")}
    \cup {BodyOf(p, s, m) : p \in Prompts, s \in SystemInstructions, m \in Models}

Requests == [method : Methods, body : Bodies]

\* { candidates: [ { content: { parts: [ part ] } } ] }
Candidate(part) == Obj(<<M("content", Obj(<<M("parts", Arr(<<part>>))>>))>>)
Generated(part) == Obj(<<M("candidates", Arr(<<Candidate(part)>>))>>)
TextPart(v) == Obj(<<M("text", v)>>)

UpstreamBodies ==
    {TextBody("<html>Bad Gateway</html>"), TextBody("")}
    \cup {JsonBody(v) : v \in
           {Null, Num("5"), Obj(<<>>),
            Obj(<<M("error", Str("rate limited"))>>),
            Obj(<<M("candidates", Arr(<<>>))>>),
            Obj(<<M("candidates", Arr(<<Null>>))>>),
            Obj(<<M("candidates", Arr(<<Obj(<<>>)>>))>>),
            Obj(<<M("candidates", Arr(<<Obj(<<M("content", Obj(<<>>))>>)>>))>>),
            Obj(<<M("candidates",
                    Arr(<<Obj(<<M("content", Obj(<<M("parts", Arr(<<>>))>>))>>)>>))>>),
            Generated(Obj(<<>>)),
            Generated(TextPart(Null)),
            Generated(TextPart(Str(""))),
            Generated(TextPart(Num("0"))),
            Generated(TextPart(Bool("false"))),
            Generated(TextPart(Num("7"))),
            Generated(TextPart(Str("Result text"))),
            Obj(<<M("candidates", Arr(<<Candidate(TextPart(Str("first"))),
                                        Candidate(TextPart(Str("second")))>>)),
                  M("usageMetadata", Obj(<<M("totalTokenCount", Num("12"))>>))>>)}}

UpstreamStatuses == {200, 201, 400, 429, 500, 503}

UpstreamReplies == [status : UpstreamStatuses, body : UpstreamBodies]

NetworkFailures == {"fetch failed", "The operation was aborted"}

ConcCredentials == {Undefined, Str("k1")}
ConcRequests ==
    {[method |-> "GET", body |-> Undefined]}
    \cup [method : {"POST"},
          body : {BodyOf(p, s, m) :
                    p \in {Str("p1"), Str("p2")}, s \in {Undefined, Str("s1")},
                    m \in {Undefined, Str("m1")}}]
ConcReplies ==
    {[status |-> 200, body |-> JsonBody(Generated(TextPart(Str("Result text"))))]}
ConcFailures == {"fetch failed"}

(***************************************************************************)
(* State.                                                                  *)
(***************************************************************************)
NoRequest == [method |-> "", body |-> Unassigned]

InitLocals ==
    /\ pc = [i \in Invocations |-> "Idle"]
    /\ request = [i \in Invocations |-> NoRequest]
    /\ key = [i \in Invocations |-> Unassigned]
    /\ prompt = [i \in Invocations |-> Unassigned]
    /\ systemInstruction = [i \in Invocations |-> Unassigned]
    /\ model = [i \in Invocations |-> Unassigned]
    /\ payload = [i \in Invocations |-> Unassigned]
    /\ apiResponse = [i \in Invocations |-> NoResponse]
    /\ apiResult = [i \in Invocations |-> Unassigned]
    /\ error = [i \in Invocations |-> Unassigned]
    /\ outbound = [i \in Invocations |-> <<>>]
    /\ responses = [i \in Invocations |-> <<>>]
    /\ promise = [i \in Invocations |-> "none"]

Init == env \in Credentials /\ InitLocals
InitConc == env \in ConcCredentials /\ InitLocals

\* response.status(..).json(..) followed by the end of the handler's body
Emit(i, res) ==
    /\ responses' = [responses EXCEPT ![i] = Append(@, res)]
    /\ pc' = [pc EXCEPT ![i] = "End"]
    /\ promise' = [promise EXCEPT ![i] = "fulfilled"]

\* a response on a path that threw nothing
Finish(i, res) == Emit(i, res) /\ UNCHANGED error

\* Variant: the exception is not caught and rejects the handler's promise.
Rethrow(i, message) ==
    /\ error' = [error EXCEPT ![i] = Str(message)]
    /\ pc' = [pc EXCEPT ![i] = "End"]
    /\ promise' = [promise EXCEPT ![i] = "rejected"]
    /\ UNCHANGED responses

\* lines 55-58: an exception thrown inside the try block is caught
Throw(i, message) ==
    /\ error' = [error EXCEPT ![i] = Str(message)]
    /\ Emit(i, InternalErrorResponse(message))

\* The platform calls handler(request, response).
Invoke(i, req) ==
    /\ pc[i] = "Idle"
    /\ request' = [request EXCEPT ![i] = req]
    /\ pc' = [pc EXCEPT ![i] = "Start"]
    /\ promise' = [promise EXCEPT ![i] = "pending"]
    /\ UNCHANGED <<env, key, prompt, systemInstruction, model, payload,
                   apiResponse, apiResult, error, outbound, responses>>

\* lines 9-11
MethodGate(i) ==
    /\ pc[i] = "Start"
    /\ IF ~MethodAllowed(request[i].method)
       THEN Finish(i, MethodNotAllowedResponse)
       ELSE /\ pc' = [pc EXCEPT ![i] = "MethodChecked"]
            /\ UNCHANGED <<responses, promise, error>>
    /\ UNCHANGED <<env, request, key, prompt, systemInstruction, model, payload,
                   apiResponse, apiResult, outbound>>

\* lines 15-20
CredentialCheck(i) ==
    /\ pc[i] = "MethodChecked"
    /\ key' = [key EXCEPT ![i] = env]
    /\ IF CredentialMissing(env)
       THEN Finish(i, ConfigErrorResponse)
       ELSE /\ pc' = [pc EXCEPT ![i] = "CredentialChecked"]
            /\ UNCHANGED <<responses, promise, error>>
    /\ UNCHANGED <<env, request, prompt, systemInstruction, model, payload,
                   apiResponse, apiResult, outbound>>

\* lines 23-28
PayloadBuild(i) ==
    /\ pc[i] = "CredentialChecked"
    /\ IF ExtractionThrows(request[i].body)
       THEN /\ Throw(i, DestructureMessage(request[i].body))
            /\ UNCHANGED <<prompt, systemInstruction, model, payload>>
       ELSE /\ prompt' = [prompt EXCEPT ![i] = GetProp(request[i].body, "prompt")]
            /\ systemInstruction' =
                 [systemInstruction EXCEPT
                    ![i] = GetProp(request[i].body, "systemInstruction")]
            /\ model' = [model EXCEPT ![i] = GetProp(request[i].body, "model")]
            /\ payload' = [payload EXCEPT
                 ![i] = BuildPayload(GetProp(request[i].body, "prompt"),
                                     GetProp(request[i].body, "systemInstruction"),
                                     GetProp(request[i].body, "model"))]
            /\ pc' = [pc EXCEPT ![i] = "PayloadBuilt"]
            /\ UNCHANGED <<responses, promise, error>>
    /\ UNCHANGED <<env, request, key, apiResponse, apiResult, outbound>>

\* lines 31-35: fetch is called and the handler suspends on its promise
UpstreamCall(i) ==
    /\ pc[i] = "PayloadBuilt"
    /\ outbound' = [outbound EXCEPT
         ![i] = Append(@, FetchCall(key[i], payload[i], model[i]))]
    /\ pc' = [pc EXCEPT ![i] = "UpstreamCalled"]
    /\ UNCHANGED <<env, request, key, prompt, systemInstruction, model, payload,
                   apiResponse, apiResult, error, responses, promise>>

\* line 31: the fetch promise resolves with the upstream's reply
FetchResolve(i, res) ==
    /\ pc[i] = "UpstreamCalled"
    /\ apiResponse' = [apiResponse EXCEPT ![i] = res]
    /\ pc' = [pc EXCEPT ![i] = "ResponseReceived"]
    /\ UNCHANGED <<env, request, key, prompt, systemInstruction, model, payload,
                   apiResult, error, outbound, responses, promise>>

\* Variant: a rejected fetch is attempted again.
FetchRejectRetry(i, message) ==
    /\ pc[i] = "UpstreamCalled"
    /\ Len(outbound[i]) < 3
    /\ pc' = [pc EXCEPT ![i] = "PayloadBuilt"]
    /\ UNCHANGED <<env, request, key, prompt, systemInstruction, model, payload,
                   apiResponse, apiResult, error, outbound, responses, promise>>

\* line 31: the fetch promise rejects (network failure)
FetchReject(i, message) ==
    /\ pc[i] = "UpstreamCalled"
    /\ Throw(i, message)
    /\ UNCHANGED <<env, request, key, prompt, systemInstruction, model, payload,
                   apiResponse, apiResult, outbound>>

\* line 37: await apiResponse.json()
ParseBody(i) ==
    /\ pc[i] = "ResponseReceived"
    /\ IF apiResponse[i].body.json
       THEN /\ apiResult' = [apiResult EXCEPT ![i] = apiResponse[i].body.value]
            /\ pc' = [pc EXCEPT ![i] = "Parsed"]
            /\ UNCHANGED <<responses, promise, error>>
       ELSE /\ Throw(i, ParseMessage(apiResponse[i].body.raw))
            /\ UNCHANGED apiResult
    /\ UNCHANGED <<env, request, key, prompt, systemInstruction, model, payload,
                   apiResponse, outbound>>

\* Variant: the branch for an empty result sends nothing.
ShapeResponseSilent(i) ==
    /\ pc[i] = "Parsed"
    /\ IF Ok(apiResponse[i].status)
       THEN IF Nullish(apiResult[i])
            THEN Throw(i, NullReadMessage)
            ELSE IF Truthy(ExtractText(apiResult[i]))
                 THEN Finish(i, SummaryResponse(ExtractText(apiResult[i])))
                 ELSE /\ pc' = [pc EXCEPT ![i] = "End"]
                      /\ promise' = [promise EXCEPT ![i] = "fulfilled"]
                      /\ UNCHANGED <<responses, error>>
       ELSE Finish(i, UpstreamFailureResponse(apiResponse[i], apiResult[i]))
    /\ UNCHANGED <<env, request, key, prompt, systemInstruction, model, payload,
                   apiResponse, apiResult, outbound>>

\* lines 39-54
ShapeResponse(i) ==
    /\ pc[i] = "Parsed"
    /\ IF Ok(apiResponse[i].status)
       THEN IF Nullish(apiResult[i])
            THEN Throw(i, NullReadMessage)
            ELSE IF Truthy(ExtractText(apiResult[i]))
                 THEN Finish(i, SummaryResponse(ExtractText(apiResult[i])))
                 ELSE Finish(i, EmptyResultResponse)
       ELSE Finish(i, UpstreamFailureResponse(apiResponse[i], apiResult[i]))
    /\ UNCHANGED <<env, request, key, prompt, systemInstruction, model, payload,
                   apiResponse, apiResult, outbound>>

Next ==
    \/ \E req \in Requests : Invoke(1, req)
    \/ MethodGate(1)
    \/ CredentialCheck(1)
    \/ PayloadBuild(1)
    \/ UpstreamCall(1)
    \/ \E res \in UpstreamReplies : FetchResolve(1, res)
    \/ \E message \in NetworkFailures : FetchReject(1, message)
    \/ ParseBody(1)
    \/ ShapeResponse(1)

NextConc ==
    \E i \in Invocations :
        \/ \E req \in ConcRequests : Invoke(i, req)
        \/ MethodGate(i)
        \/ CredentialCheck(i)
        \/ PayloadBuild(i)
        \/ UpstreamCall(i)
        \/ \E res \in ConcReplies : FetchResolve(i, res)
        \/ \E message \in ConcFailures : FetchReject(i, message)
        \/ ParseBody(i)
        \/ ShapeResponse(i)

Spec == Init /\ [][Next]_vars

\* The steps of an invocation that has been called: the runtime runs a
\* resumed handler to its next await, and the transport settles every fetch
\* (it resolves or it rejects).  Whether a request arrives is not fair.
Progress ==
    \/ MethodGate(1)
    \/ CredentialCheck(1)
    \/ PayloadBuild(1)
    \/ UpstreamCall(1)
    \/ ParseBody(1)
    \/ ShapeResponse(1)
    \/ pc[1] = "UpstreamCalled"
         /\ \/ \E message \in NetworkFailures : FetchReject(1, message)
            \/ \E res \in UpstreamReplies : FetchResolve(1, res)

LiveSpec == Init /\ [][Next]_vars /\ WF_vars(Progress)

SpecConc == InitConc /\ [][NextConc]_vars

(***************************************************************************)
(* Vocabulary of the properties.                                           *)
(***************************************************************************)
Keys(doc) == {doc.c[n].k : n \in 1..Len(doc.c)}
Ended(i) == pc[i] = "End"
Replied(i) == apiResponse[i] # NoResponse
InSuccessRange(status) == status \in 200..299
Absent(k) == k \in {Undefined, Str("")}
IsPost(i) == request[i].method = "POST"
\* the value at candidates[0].content.parts[0].text of a parsed upstream body
TextAt(v) == IF Nullish(v) THEN Undefined ELSE ExtractText(v)
PresentNonEmpty(v) == v \notin {Undefined, Null, Str("")}
\* the upstream body as it would appear under `details`
RawBody(b) == IF b.json THEN b.value ELSE Str(b.raw)
\* the text the outbound payload carries for the prompt / the system instruction
SentPrompt(call) ==
    GetProp(OptIndex0(GetProp(OptIndex0(GetProp(call.body, "contents")), "parts")), "text")
SentInstruction(call) ==
    GetProp(OptIndex0(GetProp(GetProp(call.body, "systemInstruction"), "parts")), "text")
Rank(p) ==
    CASE p = "Idle" -> 0
      [] p = "Start" -> 1
      [] p = "MethodChecked" -> 2
      [] p = "CredentialChecked" -> 3
      [] p = "PayloadBuilt" -> 4
      [] p = "UpstreamCalled" -> 5
      [] p = "ResponseReceived" -> 6
      [] p = "Parsed" -> 7
      [] p = "End" -> 8

(***************************************************************************)
(* C1.  Every upstream reply with a status outside the success range is    *)
(* answered with the upstream's status, an `error` message and the raw     *)
(* upstream body under `details`, whatever the body.                       *)
(* The handler parses the body as JSON before it looks at the status, so a *)
(* failure reply whose body is not JSON is answered 500 with the parser's  *)
(* message instead.                                                        *)
(***************************************************************************)
C1_UpstreamFailureRelayed ==
    \A i \in Invocations :
        (Ended(i) /\ Replied(i) /\ ~InSuccessRange(apiResponse[i].status)) =>
            /\ Len(responses[i]) = 1
            /\ responses[i][1].status = apiResponse[i].status
            /\ Keys(responses[i][1].body) = {"error", "details"}
            /\ GetProp(responses[i][1].body, "details") = RawBody(apiResponse[i].body)

(***************************************************************************)
(* C2.  With the credential absent, a POST request is answered 500 with an *)
(* `error` field whatever its body, the body is never read and no outbound *)
(* call is issued.                                                         *)
(***************************************************************************)
C2_MissingCredential ==
    \A i \in Invocations :
        (IsPost(i) /\ Absent(env)) =>
            /\ outbound[i] = <<>>
            /\ pc[i] \in {"Start", "MethodChecked", "End"}
            /\ prompt[i] = Unassigned /\ payload[i] = Unassigned
            /\ Ended(i) =>
                 /\ Len(responses[i]) = 1
                 /\ responses[i][1].status = 500
                 /\ Keys(responses[i][1].body) = {"error"}

C2_Witness ==
    \E i \in Invocations :
        /\ IsPost(i) /\ env = Undefined /\ request[i].body = Undefined
        /\ Ended(i) /\ Len(responses[i]) = 1 /\ responses[i][1].status = 500

(***************************************************************************)
(* C3.  A request whose method is not POST is answered 405 with an `error` *)
(* field and nothing else happens: the credential is not read, the body is *)
(* not read, no outbound call is made, also when the credential is absent. *)
(***************************************************************************)
C3_MethodGate ==
    \A i \in Invocations :
        (pc[i] # "Idle" /\ ~IsPost(i)) =>
            /\ pc[i] \in {"Start", "End"}
            /\ key[i] = Unassigned /\ prompt[i] = Unassigned
            /\ payload[i] = Unassigned /\ outbound[i] = <<>>
            /\ IF Ended(i)
               THEN /\ Len(responses[i]) = 1
                    /\ responses[i][1].status = 405
                    /\ Keys(responses[i][1].body) = {"error"}
               ELSE responses[i] = <<>>

C3_Witness ==
    \E i \in Invocations :
        /\ request[i].method = "post" /\ Absent(env)
        /\ Ended(i) /\ Len(responses[i]) = 1 /\ responses[i][1].status = 405

(***************************************************************************)
(* C4.  The response is 200 exactly when the upstream status is in the     *)
(* success range and the text at candidates[0].content.parts[0].text is    *)
(* present and non-empty, and then the body is exactly { summary: text }.  *)
(* As stated (any value other than undefined, null and "" counts as        *)
(* present and non-empty):                                                 *)
(***************************************************************************)
C4_Original ==
    \A i \in Invocations :
        Ended(i) =>
            /\ Len(responses[i]) = 1
            /\ (responses[i][1].status = 200) <=>
                 /\ Replied(i) /\ InSuccessRange(apiResponse[i].status)
                 /\ apiResponse[i].body.json
                 /\ PresentNonEmpty(TextAt(apiResponse[i].body.value))
            /\ (responses[i][1].status = 200) =>
                 responses[i][1].body =
                     Obj(<<M("summary", TextAt(apiResponse[i].body.value))>>)

(***************************************************************************)
(* C4, amended.  The value at the path also counts as empty when it is a   *)
(* falsy value that is no string (0, false): the response is 200 exactly   *)
(* when the upstream status is in the success range, the body is JSON and  *)
(* the value at the path is none of undefined, null, "", 0 and false; the  *)
(* body is then exactly { summary: value }.                                *)
(***************************************************************************)
C4_SuccessExactly ==
    \A i \in Invocations :
        Ended(i) =>
            /\ Len(responses[i]) = 1
            /\ (responses[i][1].status = 200) <=>
                 /\ Replied(i) /\ InSuccessRange(apiResponse[i].status)
                 /\ apiResponse[i].body.json
                 /\ PresentNonEmpty(TextAt(apiResponse[i].body.value))
                 /\ TextAt(apiResponse[i].body.value) \notin {Num("0"), Bool("false")}
            /\ (responses[i][1].status = 200) =>
                 responses[i][1].body =
                     Obj(<<M("summary", TextAt(apiResponse[i].body.value))>>)

C4_Witness ==
    \E i \in Invocations :
        /\ Ended(i) /\ apiResponse[i].status = 201
        /\ TextAt(apiResponse[i].body.value) = Str("first")
        /\ Len(responses[i]) = 1
        /\ responses[i][1] = [status |-> 200, body |-> Obj(<<M("summary", Str("first"))>>)]

(***************************************************************************)
(* C5.  An upstream reply in the success range whose body has no text at   *)
(* the path (no candidates, no content, no parts, no text) or the empty    *)
(* string there is answered 500 with the error that names an empty or      *)
(* invalid response.                                                       *)
(* A body that is the JSON value null has no candidates; reading           *)
(* `candidates` from it throws, and the caller gets the internal-error     *)
(* response instead.                                                       *)
(***************************************************************************)
C5_EmptyResult ==
    \A i \in Invocations :
        (/\ Ended(i) /\ Replied(i) /\ InSuccessRange(apiResponse[i].status)
         /\ apiResponse[i].body.json
         /\ TextAt(apiResponse[i].body.value) \in {Undefined, Str("")}) =>
            /\ Len(responses[i]) = 1
            /\ responses[i][1].status = 500
            /\ GetProp(responses[i][1].body, "error") =
                 Str("Gemini API returned an empty or invalid response.")

(***************************************************************************)
(* C6.  Every exception raised after the method gate (body extraction      *)
(* throwing, the upstream call rejecting, the upstream body failing to     *)
(* parse) is caught and answered 500 with the generic error message and    *)
(* the exception's message under `details`; the handler's promise is never *)
(* rejected.                                                               *)
(***************************************************************************)
C6_ExceptionsCaught ==
    \A i \in Invocations :
        /\ promise[i] # "rejected"
        /\ Ended(i) => promise[i] = "fulfilled"
        /\ error[i] # Unassigned =>
             /\ Ended(i)
             /\ responses[i] =
                  <<[status |-> 500,
                     body |-> Obj(<<M("error",
                                      Str("Internal Server Error during proxy processing.")),
                                    M("details", error[i])>>)]>>
             /\ error[i].t = "string"
        /\ (Ended(i) /\ IsPost(i) /\ ~Absent(env) /\ Nullish(request[i].body)) =>
             error[i] # Unassigned
        /\ (Ended(i) /\ Len(outbound[i]) = 1 /\ ~Replied(i)) =>
             error[i].s \in NetworkFailures
        /\ (Ended(i) /\ Replied(i) /\ ~apiResponse[i].body.json) =>
             error[i] # Unassigned

C6_Witness ==
    \E i \in Invocations :
        /\ Ended(i) /\ Replied(i) /\ apiResponse[i].status = 200
        /\ ~apiResponse[i].body.json
        /\ error[i] = Str("Unexpected end of JSON input")
        /\ Len(responses[i]) = 1 /\ responses[i][1].status = 500

(***************************************************************************)
(* C7.  An invocation issues at most one outbound call, and none when the  *)
(* method is not POST or the credential is absent; the call is issued on   *)
(* entering UpstreamCalled and no outcome of it leads to another; the      *)
(* positions of the handler are visited one-way, in the order method       *)
(* check, credential check, payload build, upstream call, response.        *)
(***************************************************************************)
C7_CallsBounded ==
    \A i \in Invocations :
        /\ Len(outbound[i]) <= 1
        /\ (pc[i] # "Idle" /\ (~IsPost(i) \/ Absent(env))) => outbound[i] = <<>>
        /\ Rank(pc[i]) <= 4 => outbound[i] = <<>>
        /\ Rank(pc[i]) \in 5..7 => Len(outbound[i]) = 1

C7_OneWay ==
    \A i \in Invocations :
        /\ pc'[i] # pc[i] => Rank(pc'[i]) > Rank(pc[i])
        /\ Len(outbound'[i]) >= Len(outbound[i])

C7_NoRetry == [](C7_CallsBounded) /\ [][C7_OneWay]_vars

C7_Witness ==
    \E i \in Invocations :
        /\ Ended(i) /\ Len(outbound[i]) = 1
        /\ error[i] = Str("fetch failed")

(***************************************************************************)
(* C8.  Every invocation ends having emitted exactly one response, with an *)
(* explicit status and a body that holds `summary` (status 200 only) or    *)
(* `error` (every other status); no path ends without a response or emits  *)
(* two.                                                                    *)
(***************************************************************************)
C8_ResponseShape ==
    \A i \in Invocations :
        /\ Len(responses[i]) = (IF Ended(i) THEN 1 ELSE 0)
        /\ \A n \in 1..Len(responses[i]) :
             /\ responses[i][n].status \in 100..599
             /\ IF responses[i][n].status = 200
                THEN Keys(responses[i][n].body) = {"summary"}
                ELSE /\ "error" \in Keys(responses[i][n].body)
                     /\ "summary" \notin Keys(responses[i][n].body)

C8_Running == \E i \in Invocations : pc[i] \notin {"Idle", "End"}
C8_Settled ==
    \A i \in Invocations :
        pc[i] # "Idle" => (Ended(i) /\ Len(responses[i]) = 1)

C8_ExactlyOneResponse ==
    /\ [](C8_ResponseShape)
    /\ C8_Running ~> C8_Settled

C8_Witness ==
    \E i \in Invocations :
        /\ Ended(i) /\ Replied(i) /\ InSuccessRange(apiResponse[i].status)
        /\ TextAt(apiResponse[i].body.value) = Str("")
        /\ Len(responses[i]) = 1 /\ responses[i][1].status = 500

(***************************************************************************)
(* C9.  The outbound URL and payload of an invocation depend only on its   *)
(* prompt, its systemInstruction and the credential: two invocations whose *)
(* requests agree on prompt and systemInstruction issue the same outbound  *)
(* call under every interleaving, whether or not they agree on `model`.    *)
(***************************************************************************)
C9_PayloadDeterministic ==
    \A i, j \in Invocations :
        (/\ outbound[i] # <<>> /\ outbound[j] # <<>>
         /\ GetProp(request[i].body, "prompt") = GetProp(request[j].body, "prompt")
         /\ GetProp(request[i].body, "systemInstruction")
              = GetProp(request[j].body, "systemInstruction")) =>
            outbound[i] = outbound[j]

C9_Witness ==
    \E i, j \in Invocations :
        /\ i # j
        /\ outbound[i] # <<>> /\ outbound[j] # <<>>
        /\ GetProp(request[i].body, "prompt") = GetProp(request[j].body, "prompt")
        /\ GetProp(request[i].body, "model") = Str("m1")
        /\ GetProp(request[j].body, "model") = Undefined
        /\ outbound[i] = outbound[j]
        /\ pc[i] = "UpstreamCalled" /\ Ended(j)

(***************************************************************************)
(* C10.  For a POST request with the credential present, every body,       *)
(* a missing one included, is forwarded as-is in an outbound call.         *)
(* As stated:                                                              *)
(***************************************************************************)
C10_Original ==
    \A i \in Invocations :
        (Ended(i) /\ IsPost(i) /\ ~Absent(env)) =>
            /\ Len(outbound[i]) = 1
            /\ SentPrompt(outbound[i][1]) = OptProp(request[i].body, "prompt")
            /\ SentInstruction(outbound[i][1])
                 = OptProp(request[i].body, "systemInstruction")

(***************************************************************************)
(* C10, amended.  For a POST request with the credential present, the      *)
(* members of the body are not validated: every body other than a missing  *)
(* one (undefined or null), also one lacking prompt or systemInstruction   *)
(* or holding values that are no strings, is forwarded as-is in exactly    *)
(* one outbound call, and no response precedes that call; what the caller  *)
(* gets is then decided by the upstream's reply (its status and JSON body  *)
(* under `details` when the status is a failure and the body is JSON, 500  *)
(* with the parser's message when the body is not JSON).  A missing body   *)
(* is not forwarded: the extraction throws, no outbound call is made and   *)
(* the caller gets 500 with the exception's message under `details`.       *)
(***************************************************************************)
C10_ForwardedUnvalidated ==
    \A i \in Invocations :
        (IsPost(i) /\ ~Absent(env)) =>
            IF Nullish(request[i].body)
            THEN /\ outbound[i] = <<>>
                 /\ Ended(i) =>
                      /\ Len(responses[i]) = 1
                      /\ responses[i][1].status = 500
                      /\ Keys(responses[i][1].body) = {"error", "details"}
            ELSE /\ Ended(i) => Len(outbound[i]) = 1
                 /\ responses[i] # <<>> => Len(outbound[i]) = 1
                 /\ outbound[i] # <<>> =>
                      /\ SentPrompt(outbound[i][1]) = GetProp(request[i].body, "prompt")
                      /\ SentInstruction(outbound[i][1])
                           = GetProp(request[i].body, "systemInstruction")
                 /\ (Ended(i) /\ Replied(i)
                     /\ ~InSuccessRange(apiResponse[i].status)) =>
                      /\ Len(responses[i]) = 1
                      /\ Keys(responses[i][1].body) = {"error", "details"}
                      /\ IF apiResponse[i].body.json
                         THEN /\ responses[i][1].status = apiResponse[i].status
                              /\ GetProp(responses[i][1].body, "details")
                                   = apiResponse[i].body.value
                         ELSE /\ responses[i][1].status = 500
                              /\ GetProp(responses[i][1].body, "details") = error[i]

C10_Witness ==
    \E i \in Invocations :
        /\ IsPost(i) /\ ~Absent(env)
        /\ request[i].body = BodyOf(Undefined, Str("s1"), Undefined)
        /\ Ended(i) /\ Len(outbound[i]) = 1
        /\ SentPrompt(outbound[i][1]) = Undefined
        /\ apiResponse[i].status = 400
        /\ Len(responses[i]) = 1 /\ responses[i][1].status = 400

====
